---- MODULE Spec2Model ----
(***************************************************************************)
(* A model of sleep_app.py: the weather pipeline (geocoder, station        *)
(* lookup, observation feed or historical archive), the night-window       *)
(* aggregator filter_nighttime_data, get_historical_weather, and the two   *)
(* front ends run_cli and the Streamlit handler.                           *)
(*                                                                         *)
(* Numbers: metric values are small naturals; an average rounded to two    *)
(* decimals is kept as an integer number of hundredths (13.00 is 1300).    *)
(***************************************************************************)
EXTENDS Integers, Sequences, FiniteSets, TLC

VARIABLES
    \* ---- filter_nighttime_data (lines 53-82) ----
    observations,   \* the argument: a sequence of feed entries
    start_hour,     \* the argument start_hour
    end_hour,       \* the argument end_hour
    tz_offset,      \* the argument tz_offset
    idx,            \* number of observations the for loop has consumed
    temps,          \* the local list temps
    humidity,       \* the local list humidity
    pressure,       \* the local list pressure
    wind,           \* the local list wind
    night,          \* positions of the observations that passed the test of line 66
    fpc,            \* "idle", "loop", "done" (returned), "raised" (KeyError)
    fresult,        \* the returned dict
    \* ---- get_historical_weather (lines 89-125) ----
    data,           \* the archive's hourly object (the five arrays)
    df,             \* the DataFrame of lines 109-115, a sequence of rows
    df_night,       \* the selection of line 118
    hpc,            \* "idle", "frame", "select", "mean", "done", "raised"
    hresult,        \* the returned dict
    \* ---- run_cli / the Streamlit handler (lines 173-194, 210-261) ----
    mode,           \* "cli" or "streamlit"
    date_input,     \* TRUE when a date was typed (a non-empty string)
    pc,             \* position in the handler
    requests,       \* the network requests issued so far, in order
    responses,      \* what each request came back with, in order
    weather_avg,    \* the dict the chosen path returned
    error,          \* the exception that ended the run, if any
    user_input,     \* what the user answered to the prompts or the form
    saved           \* number of save_record calls

fvars == <<observations, start_hour, end_hour, tz_offset, idx, temps, humidity,
           pressure, wind, night, fpc, fresult>>
hvars == <<data, df, df_night, hpc, hresult>>
pvars == <<mode, date_input, pc, requests, responses, weather_avg, error,
           user_input, saved>>
vars == <<fvars, hvars, pvars>>

----------------------------------------------------------------------------
\* Bounds of the model.

\* Longest observation sequence handed to filter_nighttime_data.
MaxObs == 3
\* Longest hourly array of an archive response.
MaxRows == 2
\* Longest hourly series on which the two window tests are compared.
MaxSeries == 2
\* Longest observation feed a pipeline run receives.
MaxFeed == 2

----------------------------------------------------------------------------
\* Values.

\* A variable that holds no value yet.
Unset == [kind |-> "unset"]

\* Python's None as a dict value, a rounded number (in hundredths), float nan.
None == [kind |-> "None", val |-> 0]
Number(h) == [kind |-> "num", val |-> h]
NaN == [kind |-> "nan", val |-> 0]

\* The four entries of an observation's properties, as the code reads them.
\* "missing": the key is not in properties (props[key] raises KeyError);
\* "none": the key maps to null; "nullvalue": a wrapper {"value": null};
\* "num": a wrapper {"value": val}.
Missing == [kind |-> "missing", val |-> 0]
NoWrapper == [kind |-> "none", val |-> 0]
NullValue == [kind |-> "nullvalue", val |-> 0]
Wrapped(v) == [kind |-> "num", val |-> v]

\* The keys read at lines 68-75, in the order the code reads them.
MetricKeys == <<"temperature", "relativeHumidity", "barometricPressure", "windSpeed">>

\* The keys of the returned dict (lines 78-81 and 121-124), in the same order.
ResultKeys == <<"avg_temp_C", "avg_humidity_percent", "avg_pressure_Pa", "avg_wind_mps">>

RECURSIVE Sum(_)
\* Python's sum() of a list.
Sum(s) == IF s = <<>> THEN 0 ELSE Head(s) + Sum(Tail(s))

\* A variant of Round2 that cuts the quotient off instead of rounding it.
Round2Floor(total, n) == (100 * total) \div n

\* round(total / n, 2) for total >= 0 and n > 0, in hundredths: Python rounds
\* to the nearest hundredth and an exact tie to the even one.
Round2(total, n) ==
    LET q == (100 * total) \div n
        r == (100 * total) % n
    IN  IF 2 * r < n THEN q
        ELSE IF 2 * r > n THEN q + 1
        ELSE IF q % 2 = 0 THEN q ELSE q + 1

----------------------------------------------------------------------------
\* filter_nighttime_data

\* Lines 64-65: the hour of ts_utc + timedelta(hours=tz_offset).
LocalHour(utc_hour, offset) == (utc_hour + offset) % 24

\* A variant of InWindow whose start hour is exclusive.
InWindowStrict(h, s, e) == h > s \/ h <= e

\* Line 66: local_time.hour >= start_hour or local_time.hour <= end_hour.
InWindow(h, s, e) == h >= s \/ h <= e

\* A variant of HasValue that tests the value's truth instead of "is not None".
HasValueTruthy(e) == e.kind = "num" /\ e.val # 0

\* Lines 68, 70, 72, 74: props[key] and props[key]["value"] is not None,
\* for a key that is present. A wrapper dict is truthy, null is not.
Truthy(e) == e.kind \in {"nullvalue", "num"}
HasValue(e) == Truthy(e) /\ e.kind # "nullvalue"

\* The k-th test of lines 68-75 is reached iff no earlier lookup raised
\* KeyError and its own lookup does not raise.
Reached(obs, k) == \A j \in 1..k : obs[MetricKeys[j]].kind # "missing"

\* Lines 68-75 for the k-th metric: the list after this observation.
Collect(list, obs, k) ==
    IF Reached(obs, k) /\ HasValue(obs[MetricKeys[k]])
    THEN Append(list, obs[MetricKeys[k]].val)
    ELSE list

\* Lines 78-81: round(sum(xs)/len(xs), 2) if xs else None.
Average(xs) == IF Len(xs) > 0 THEN Number(Round2(Sum(xs), Len(xs))) ELSE None

\* Lines 63-75: one iteration of the for loop.
FilterLoop ==
    /\ fpc = "loop"
    /\ idx < Len(observations)
    /\ LET obs == observations[idx + 1]
           local_hour == LocalHour(obs.hour, tz_offset)
       IN  IF InWindow(local_hour, start_hour, end_hour)
           THEN /\ night' = Append(night, idx + 1)
                /\ temps' = Collect(temps, obs, 1)
                /\ humidity' = Collect(humidity, obs, 2)
                /\ pressure' = Collect(pressure, obs, 3)
                /\ wind' = Collect(wind, obs, 4)
                /\ fpc' = IF Reached(obs, 4) THEN "loop" ELSE "raised"
           ELSE /\ UNCHANGED <<night, temps, humidity, pressure, wind, fpc>>
    /\ idx' = idx + 1
    /\ UNCHANGED <<observations, start_hour, end_hour, tz_offset, fresult>>
    /\ UNCHANGED <<hvars, pvars>>

\* Lines 77-82: the return statement.
FilterReturn ==
    /\ fpc = "loop"
    /\ idx = Len(observations)
    /\ fresult' = [avg_temp_C |-> Average(temps),
                   avg_humidity_percent |-> Average(humidity),
                   avg_pressure_Pa |-> Average(pressure),
                   avg_wind_mps |-> Average(wind)]
    /\ fpc' = "done"
    /\ UNCHANGED <<observations, start_hour, end_hour, tz_offset, idx, temps,
                   humidity, pressure, wind, night>>
    /\ UNCHANGED <<hvars, pvars>>

NextFilter == FilterLoop \/ FilterReturn

----------------------------------------------------------------------------
\* get_historical_weather

\* A cell of an archive array: JSON null, or a number.
ArchNull == [kind |-> "null", val |-> 0]
Cell(v) == [kind |-> "float", val |-> v]

\* The value arrays of data["hourly"], in the order of lines 104-107, and the
\* DataFrame columns of lines 111-114 they become.
ArchiveKeys == <<"temperature_2m", "relative_humidity_2m", "pressure_msl", "windspeed_10m">>
Columns == <<"temperature_C", "humidity_percent", "pressure_Pa", "wind_mps">>

\* A variant of SameLength that lets the value arrays run past the time array.
SameLengthAtLeast(hourly) ==
    \A k \in 1..4 : Len(hourly[ArchiveKeys[k]]) >= Len(hourly.time)

\* Lines 109-115: pd.DataFrame of a dict of arrays raises ValueError unless
\* all the arrays have the same length.
SameLength(hourly) ==
    \A k \in 1..4 : Len(hourly[ArchiveKeys[k]]) = Len(hourly.time)

\* Lines 109-115: the frame, row i holding position i of every array. The
\* time column holds the hour of the parsed time string.
Frame(hourly) ==
    [i \in 1..Len(hourly.time) |->
        [index |-> i,
         time |-> hourly.time[i],
         temperature_C |-> hourly.temperature_2m[i],
         humidity_percent |-> hourly.relative_humidity_2m[i],
         pressure_Pa |-> hourly.pressure_msl[i],
         wind_mps |-> hourly.windspeed_10m[i]]]

\* Line 118: (hour >= start_hour) | (hour <= end_hour) on the time column as
\* the archive gave it; no offset is applied.
NightMask(h, s, e) == h >= s \/ h <= e

RECURSIVE ColumnValues(_, _)
\* The non-null values of a column, in row order (pandas skips NaN).
ColumnValues(rows, col) ==
    IF rows = <<>> THEN <<>>
    ELSE IF Head(rows)[col].kind = "float"
         THEN <<Head(rows)[col].val>> \o ColumnValues(Tail(rows), col)
         ELSE ColumnValues(Tail(rows), col)

\* Lines 121-124: round(series.mean(), 2). The mean of no values is nan,
\* and round(nan, 2) is nan.
ColumnMean(rows, col) ==
    LET xs == ColumnValues(rows, col)
    IN  IF Len(xs) = 0 THEN NaN ELSE Number(Round2(Sum(xs), Len(xs)))

\* Lines 103-115: read the arrays and build the frame.
HistFrame ==
    /\ hpc = "frame"
    /\ IF SameLength(data)
       THEN df' = Frame(data) /\ hpc' = "select"
       ELSE df' = df /\ hpc' = "raised"
    /\ UNCHANGED <<data, df_night, hresult>>
    /\ UNCHANGED <<fvars, pvars>>

\* Line 118: select the night rows.
HistSelect ==
    /\ hpc = "select"
    /\ df_night' = SelectSeq(df, LAMBDA row : NightMask(row.time, start_hour, end_hour))
    /\ hpc' = "mean"
    /\ UNCHANGED <<data, df, hresult>>
    /\ UNCHANGED <<fvars, pvars>>

\* Lines 120-125: the return statement.
HistReturn ==
    /\ hpc = "mean"
    /\ hresult' = [avg_temp_C |-> ColumnMean(df_night, "temperature_C"),
                   avg_humidity_percent |-> ColumnMean(df_night, "humidity_percent"),
                   avg_pressure_Pa |-> ColumnMean(df_night, "pressure_Pa"),
                   avg_wind_mps |-> ColumnMean(df_night, "wind_mps")]
    /\ hpc' = "done"
    /\ UNCHANGED <<data, df, df_night>>
    /\ UNCHANGED <<fvars, pvars>>

NextHist == HistFrame \/ HistSelect \/ HistReturn

----------------------------------------------------------------------------
\* Inputs of filter_nighttime_data.

\* The defaults of line 53.
DefaultStart == 21
DefaultEnd == 6
DefaultOffset == -4

\* A complete reading, and the ways one entry of an observation departs from it.
Plain == Wrapped(1)
Departures == {Missing, NoWrapper, NullValue, Wrapped(0)}

\* UTC hours of feed timestamps: under the default offset 0 is local hour 20
\* (outside the default window) and 1 is local hour 21 (inside it).
HoursOutside == {0}
HoursInside == {1}

\* The four entries of one observation, at most one of which departs from a
\* complete reading.
Profiles ==
    { q \in [1..4 -> Departures \cup {Plain}] :
        \E m \in 1..4 : \A k \in (1..4) \ {m} : q[k] = Plain }

Entry(h, q) ==
    [hour |-> h, temperature |-> q[1], relativeHumidity |-> q[2],
     barometricPressure |-> q[3], windSpeed |-> q[4]]

\* Feed entries: any profile at the hour inside the window; at the hour outside
\* it, a complete reading or one that lacks a key.
FeedEntries ==
    { Entry(h, q) : h \in HoursInside, q \in Profiles } \cup
    { Entry(h, q) : h \in HoursOutside,
                    q \in { p \in Profiles : \A k \in 1..4 : p[k] \in {Plain, Missing} } }

IdleFilter ==
    /\ observations = <<>> /\ start_hour = DefaultStart /\ end_hour = DefaultEnd
    /\ tz_offset = DefaultOffset /\ idx = 0
    /\ temps = <<>> /\ humidity = <<>> /\ pressure = <<>> /\ wind = <<>>
    /\ night = <<>> /\ fpc = "idle" /\ fresult = Unset

IdleHist ==
    /\ data = Unset /\ df = <<>> /\ df_night = <<>>
    /\ hpc = "idle" /\ hresult = Unset

IdlePipeline ==
    /\ mode = "none" /\ date_input = FALSE /\ pc = "idle"
    /\ requests = <<>> /\ responses = <<>>
    /\ weather_avg = Unset /\ error = [stage |-> "none", exc |-> "none"]
    /\ user_input = "none" /\ saved = 0

\* A call filter_nighttime_data(observations) with the default window.
InitFilter ==
    /\ \E n \in 0..MaxObs : observations \in [1..n -> FeedEntries]
    /\ start_hour = DefaultStart /\ end_hour = DefaultEnd /\ tz_offset = DefaultOffset
    /\ idx = 0
    /\ temps = <<>> /\ humidity = <<>> /\ pressure = <<>> /\ wind = <<>>
    /\ night = <<>> /\ fpc = "loop" /\ fresult = Unset
    /\ IdleHist /\ IdlePipeline

SpecFilter == InitFilter /\ [][NextFilter]_vars

----------------------------------------------------------------------------
\* Inputs of get_historical_weather.

\* Hours of archive rows: 6 is inside the default window, 7 outside it.
ArchiveHours == {6, 7}

\* A complete archive row holds 40 in every column; one cell may instead be
\* null or hold 60.
PlainCell == Cell(40)
CellDepartures == {ArchNull, Cell(60)}
RowProfiles ==
    { q \in [1..4 -> CellDepartures \cup {PlainCell}] :
        \E m \in 1..4 : \A k \in (1..4) \ {m} : q[k] = PlainCell }
ArchiveRows == { <<h, q>> : h \in ArchiveHours, q \in RowProfiles }

\* The hourly object whose arrays are the columns of a table of rows.
Hourly(rows) ==
    [time |-> [i \in 1..Len(rows) |-> rows[i][1]],
     temperature_2m |-> [i \in 1..Len(rows) |-> rows[i][2][1]],
     relative_humidity_2m |-> [i \in 1..Len(rows) |-> rows[i][2][2]],
     pressure_msl |-> [i \in 1..Len(rows) |-> rows[i][2][3]],
     windspeed_10m |-> [i \in 1..Len(rows) |-> rows[i][2][4]]]

ArrayNames == {"time", "temperature_2m", "relative_humidity_2m", "pressure_msl",
               "windspeed_10m"}

\* One array of a well-formed hourly object made one entry shorter or longer.
Shorter(hourly, a) ==
    [hourly EXCEPT ![a] = SubSeq(hourly[a], 1, Len(hourly[a]) - 1)]
Longer(hourly, a) ==
    [hourly EXCEPT ![a] = Append(hourly[a], IF a = "time" THEN 6 ELSE PlainCell)]

\* Archive responses: well-formed tables of up to n rows, and the same with
\* one array of another length.
ArchiveResponses(n) ==
    LET good == UNION { { Hourly(rows) : rows \in [1..k -> ArchiveRows] } : k \in 0..n }
    IN  good
        \cup { Shorter(g, a) : g \in { x \in good : Len(x.time) > 0 }, a \in ArrayNames }
        \cup { Longer(g, a) : g \in { x \in good : Len(x.time) < n }, a \in ArrayNames }

\* A call get_historical_weather(lat, lon, date) with the default window.
InitHist ==
    /\ data \in ArchiveResponses(MaxRows)
    /\ df = <<>> /\ df_night = <<>> /\ hpc = "frame" /\ hresult = Unset
    /\ IdleFilter /\ IdlePipeline

SpecHist == InitHist /\ [][NextHist]_vars

----------------------------------------------------------------------------
\* Both window tests on one hourly series.

WindowStarts == {21, 22}
WindowEnds == {5, 6}
Offsets == {-4, 0, 5}

\* The series as the observation feed carries it.
AsFeed(hours) == [i \in 1..Len(hours) |-> Entry(hours[i], [k \in 1..4 |-> Plain])]
\* The same series as the archive carries it.
AsArchive(hours) ==
    Hourly([i \in 1..Len(hours) |-> <<hours[i], [k \in 1..4 |-> PlainCell]>>])

InitWindow ==
    /\ \E n \in 0..MaxSeries : \E hours \in [1..n -> 0..23] :
          /\ observations = AsFeed(hours)
          /\ data = AsArchive(hours)
    /\ start_hour \in WindowStarts /\ end_hour \in WindowEnds /\ tz_offset \in Offsets
    /\ idx = 0
    /\ temps = <<>> /\ humidity = <<>> /\ pressure = <<>> /\ wind = <<>>
    /\ night = <<>> /\ fpc = "loop" /\ fresult = Unset
    /\ df = <<>> /\ df_night = <<>> /\ hpc = "frame" /\ hresult = Unset
    /\ IdlePipeline

\* filter_nighttime_data runs on the series, then get_historical_weather.
NextWindow == NextFilter \/ (fpc = "done" /\ NextHist)

SpecWindow == InitWindow /\ [][NextWindow]_vars

----------------------------------------------------------------------------
\* run_cli and the Streamlit handler

\* What a request can come back with: a success, a non-success status, or
\* (the station list only) a success whose "features" list is empty.
Responses == {"ok", "http_error"}
StationListResponses == {"ok", "http_error", "empty"}

\* Line 17: r.status_code != 200.
GeocodeFails(resp) == resp # "ok"
\* Lines 31, 41, 49, 100: r.raise_for_status().
RaiseForStatus(resp) == resp = "http_error"
\* A variant of NoStations that never sees an empty list.
NoStationsIgnored(resp) == FALSE

\* Line 43: not stations_data["features"].
NoStations(resp) == resp = "empty"

\* A variant of PathFor with the branches exchanged.
PathForSwapped(date) == IF date THEN "points" ELSE "archive"

\* Lines 178-182 and 214-218: if date_input takes the historical path,
\* else the live path.
PathFor(date) == IF date THEN "archive" ELSE "points"

\* A variant of DictTruthy that asks for a value other than None.
DictTruthyAny(d) == \E k \in DOMAIN d : d[k] # None

\* Lines 187 and 223: the truth value of a dict, true unless it has no key.
DictTruthy(d) == DOMAIN d # {}

\* An exception leaves the handler: run_cli lets it propagate, the Streamlit
\* handler catches it at line 260 and shows it. Either way the run is over.
Raise(stage, exc) ==
    /\ pc' = "failed"
    /\ error' = [stage |-> stage, exc |-> exc]

Unraised == [stage |-> "none", exc |-> "none"]

\* Lines 11-22, called at lines 175 and 212.
Geocode ==
    /\ pc = "start"
    /\ \E resp \in Responses :
         /\ requests' = Append(requests, "zippopotam")
         /\ responses' = Append(responses, resp)
         /\ IF GeocodeFails(resp)
            THEN Raise("zippopotam", "ValueError")
            ELSE pc' = PathFor(date_input) /\ error' = error
    /\ UNCHANGED <<mode, date_input, weather_avg, saved, user_input>>
    /\ UNCHANGED <<fvars, hvars>>

\* Lines 93-101, called at lines 179 and 215: the archive request. On
\* success the rest of get_historical_weather runs on the body.
FetchArchive ==
    /\ pc = "archive"
    /\ \E resp \in Responses :
         /\ requests' = Append(requests, "archive")
         /\ responses' = Append(responses, resp)
         /\ IF RaiseForStatus(resp)
            THEN /\ Raise("archive", "HTTPError")
                 /\ UNCHANGED hvars
            ELSE /\ pc' = "historical" /\ error' = error
                 /\ data' \in ArchiveResponses(MaxRows)
                 /\ hpc' = "frame"
                 /\ UNCHANGED <<df, df_night, hresult>>
    /\ UNCHANGED <<mode, date_input, weather_avg, saved, user_input>>
    /\ UNCHANGED fvars

\* Lines 179 and 215: get_historical_weather returns or raises.
HistoricalEnds ==
    /\ pc = "historical"
    /\ hpc \in {"done", "raised"}
    /\ IF hpc = "done"
       THEN weather_avg' = hresult /\ pc' = "check" /\ error' = error
       ELSE weather_avg' = weather_avg /\ Raise("DataFrame", "ValueError")
    /\ UNCHANGED <<mode, date_input, requests, responses, saved, user_input>>
    /\ UNCHANGED <<fvars, hvars>>

\* Lines 25-33, called at lines 182 and 218.
StationLookup ==
    /\ pc = "points"
    /\ \E resp \in Responses :
         /\ requests' = Append(requests, "points")
         /\ responses' = Append(responses, resp)
         /\ IF RaiseForStatus(resp)
            THEN Raise("points", "HTTPError")
            ELSE pc' = "stations" /\ error' = error
    /\ UNCHANGED <<mode, date_input, weather_avg, saved, user_input>>
    /\ UNCHANGED <<fvars, hvars>>

\* Lines 40-46, the first half of get_hourly_weather (lines 183 and 219).
StationList ==
    /\ pc = "stations"
    /\ \E resp \in StationListResponses :
         /\ requests' = Append(requests, "stations")
         /\ responses' = Append(responses, resp)
         /\ IF RaiseForStatus(resp) THEN Raise("stations", "HTTPError")
            ELSE IF NoStations(resp) THEN Raise("stations", "ValueError")
            ELSE pc' = "observations" /\ error' = error
    /\ UNCHANGED <<mode, date_input, weather_avg, saved, user_input>>
    /\ UNCHANGED <<fvars, hvars>>

\* Lines 47-50, the second half of get_hourly_weather, and the call of
\* filter_nighttime_data(observations) at lines 184 and 220.
ObservationFeed ==
    /\ pc = "observations"
    /\ \E resp \in Responses :
         /\ requests' = Append(requests, "observations")
         /\ responses' = Append(responses, resp)
         /\ IF RaiseForStatus(resp)
            THEN /\ Raise("observations", "HTTPError")
                 /\ UNCHANGED <<observations, fpc>>
            ELSE /\ pc' = "aggregate" /\ error' = error
                 /\ \E n \in 0..MaxFeed : observations' \in [1..n -> FeedEntries]
                 /\ fpc' = "loop"
    /\ UNCHANGED <<start_hour, end_hour, tz_offset, idx, temps, humidity, pressure,
                   wind, night, fresult>>
    /\ UNCHANGED <<mode, date_input, weather_avg, saved, user_input>>
    /\ UNCHANGED hvars

\* Lines 184 and 220: filter_nighttime_data returns or raises.
AggregateEnds ==
    /\ pc = "aggregate"
    /\ fpc \in {"done", "raised"}
    /\ IF fpc = "done"
       THEN weather_avg' = fresult /\ pc' = "check" /\ error' = error
       ELSE weather_avg' = weather_avg /\ Raise("filter_nighttime_data", "KeyError")
    /\ UNCHANGED <<mode, date_input, requests, responses, saved, user_input>>
    /\ UNCHANGED <<fvars, hvars>>

\* Lines 187-189 and 223-225: the early exit when weather_avg is falsy.
CheckWeather ==
    /\ pc = "check"
    /\ pc' = IF ~DictTruthy(weather_avg) THEN "no_data" ELSE "collect"
    /\ UNCHANGED <<mode, date_input, requests, responses, weather_avg, error, saved,
                   user_input>>
    /\ UNCHANGED <<fvars, hvars>>

\* Lines 132-156 called at line 191: the three int(input(...)) raise
\* ValueError on an answer that is no integer. Lines 229-241: the form, and
\* whether its button reads as pressed.
CollectUserData ==
    /\ pc = "collect"
    /\ \E answer \in IF mode = "cli" THEN {"valid", "not_a_number"}
                      ELSE {"submitted", "not_submitted"} :
         /\ user_input' = answer
         /\ IF answer = "not_a_number" THEN Raise("collect_user_data", "ValueError")
            ELSE IF answer = "not_submitted" THEN pc' = "done" /\ error' = error
            ELSE pc' = "save" /\ error' = error
    /\ UNCHANGED <<mode, date_input, requests, responses, weather_avg, saved>>
    /\ UNCHANGED <<fvars, hvars>>

\* Lines 159-166, called at lines 193 and 257.
SaveRecord ==
    /\ pc = "save"
    /\ saved' = saved + 1
    /\ pc' = "done"
    /\ UNCHANGED <<mode, date_input, requests, responses, weather_avg, error, user_input>>
    /\ UNCHANGED <<fvars, hvars>>

Init ==
    /\ mode \in {"cli", "streamlit"}
    /\ date_input \in BOOLEAN
    /\ pc = "start"
    /\ requests = <<>> /\ responses = <<>>
    /\ weather_avg = Unset
    /\ error = Unraised
    /\ saved = 0
    /\ user_input = "none"
    /\ IdleFilter /\ IdleHist

Next ==
    \/ Geocode \/ FetchArchive \/ HistoricalEnds
    \/ StationLookup \/ StationList \/ ObservationFeed \/ AggregateEnds
    \/ CheckWeather \/ CollectUserData \/ SaveRecord
    \/ NextFilter \/ NextHist

Spec == Init /\ [][Next]_vars

----------------------------------------------------------------------------
\* Properties.

\* The observation at position i passed the test of line 66.
Kept(i) == \E j \in 1..Len(night) : night[j] = i

\* The list filter_nighttime_data keeps for the k-th metric.
ListOf(k) == <<temps, humidity, pressure, wind>>[k]

\* The hour h of 0..23 that differs from utc + offset by whole days.
ClockHour(utc, offset) ==
    CHOOSE h \in 0..23 : \E d \in -2..2 : h = utc + offset + 24 * d

RECURSIVE SumOver(_, _)
\* The sum of f over the finite set I.
SumOver(I, f) ==
    IF I = {} THEN 0
    ELSE LET i == CHOOSE x \in I : TRUE IN f[i] + SumOver(I \ {i}, f)

\* v is the number of hundredths nearest to total / n.
NearestHundredth(v, total, n) ==
    LET gap == 100 * total - v * n
    IN  2 * (IF gap < 0 THEN -gap ELSE gap) <= n

\* C1: filter_nighttime_data keeps an observation iff its local hour
\* h = (UTC hour + tz_offset) mod 24 satisfies h >= start_hour or h <= end_hour;
\* with the window (21, 6) the hours kept are exactly 21, 22, 23, 0, ..., 6.
C1_WindowMembership ==
    fpc \in {"loop", "done"} =>
        \A i \in 1..idx :
            LET h == ClockHour(observations[i].hour, tz_offset)
            IN  /\ Kept(i) <=> (h >= start_hour \/ h <= end_hour)
                /\ (start_hour = 21 /\ end_hour = 6) =>
                       (Kept(i) <=> h \in {21, 22, 23, 0, 1, 2, 3, 4, 5, 6})

\* C1 witness: under the default window and offset, an observation at local
\* hour 21 was kept and one at local hour 7 was not.
C1_Witness ==
    /\ fpc = "done" /\ start_hour = 21 /\ end_hour = 6 /\ tz_offset = -4
    /\ Len(observations) = 2
    /\ observations[1].hour = 1 /\ observations[2].hour = 11
    /\ night = <<1>>

\* C2: each returned average is None iff no kept observation has a non-null
\* value for that metric, and is otherwise the mean of exactly those values
\* rounded to two decimals, whatever the other metrics hold.
C2_PerMetricMean ==
    fpc = "done" =>
        \A k \in 1..4 :
            LET I == { i \in 1..Len(observations) :
                         Kept(i) /\ observations[i][MetricKeys[k]].kind = "num" }
                f == [i \in I |-> observations[i][MetricKeys[k]].val]
                avg == fresult[ResultKeys[k]]
            IN  /\ avg = None <=> I = {}
                /\ I # {} => /\ avg.kind = "num"
                             /\ NearestHundredth(avg.val, SumOver(I, f), Cardinality(I))

\* C2 witness: two kept observations whose temperature value is null and
\* whose humidity is present give no temperature average and a humidity one.
C2_Witness ==
    /\ fpc = "done" /\ Len(observations) = 2 /\ night = <<1, 2>>
    /\ \A i \in 1..2 : observations[i].temperature = NullValue
    /\ fresult.avg_temp_C = None
    /\ fresult.avg_humidity_percent = Number(100)

\* C3: a kept observation whose wrapper is present with a null inner value
\* adds nothing to the metric's list (neither a 0 nor a count in the
\* divisor) and is never what makes the function raise; a wrapper holding
\* the number 0 is in the list.
C3_NullValueSkipped ==
    /\ fpc = "raised" =>
          \E k \in 1..4 : observations[idx][MetricKeys[k]].kind = "missing"
    /\ fpc = "done" =>
          \A k \in 1..4 :
              LET nums == { i \in 1..Len(observations) :
                              Kept(i) /\ observations[i][MetricKeys[k]].kind = "num" }
                  zeros == { i \in nums : observations[i][MetricKeys[k]].val = 0 }
                  xs == ListOf(k)
              IN  /\ Len(xs) = Cardinality(nums)
                  /\ Cardinality({ j \in 1..Len(xs) : xs[j] = 0 }) = Cardinality(zeros)
                  /\ fresult[ResultKeys[k]] =
                        IF nums = {} THEN None
                        ELSE Number(Round2(Sum(xs), Cardinality(nums)))

\* C3 witness: kept observations with temperature null-valued, 0 and 1 give
\* the average 0.50 (the null neither counted as 0 nor in the divisor).
C3_Witness ==
    /\ fpc = "done" /\ Len(observations) = 3 /\ night = <<1, 2, 3>>
    /\ observations[1].temperature = NullValue
    /\ observations[2].temperature = Wrapped(0)
    /\ observations[3].temperature = Wrapped(1)
    /\ fresult.avg_temp_C = Number(50)

\* C4: filter_nighttime_data never fails, whatever the observations,
\* including observations that lack one of the four metric fields.
C4_NeverFails == fpc # "raised"

\* C5: in get_historical_weather a metric with no non-null entry among the
\* night rows yields None, and any other metric the mean of its non-null
\* night entries rounded to two decimals.
C5_NullSkipNone ==
    hpc = "done" =>
        \A k \in 1..4 :
            LET I == { i \in 1..Len(df_night) : df_night[i][Columns[k]].kind = "float" }
                f == [i \in I |-> df_night[i][Columns[k]].val]
                avg == hresult[ResultKeys[k]]
            IN  IF I = {} THEN avg = None
                ELSE /\ avg.kind = "num"
                     /\ NearestHundredth(avg.val, SumOver(I, f), Cardinality(I))

\* C6: on the same hourly series and the same window, get_historical_weather
\* keeps the same positions as filter_nighttime_data.
C6_SameWindow ==
    (fpc = "done" /\ hpc \in {"mean", "done"}) =>
        { df_night[j].index : j \in 1..Len(df_night) } = { night[j] : j \in 1..Len(night) }

\* The requests of each path, in order.
LivePath == <<"zippopotam", "points", "stations", "observations">>
HistoricalPath == <<"zippopotam", "archive">>

\* C7: the geocoder request comes first; with a date only the archive
\* request follows; without a date the station lookup, the station list and
\* the observation feed follow in that order and the archive is never asked.
C7_RequestOrder ==
    LET expected == IF date_input THEN HistoricalPath ELSE LivePath
    IN  /\ Len(requests) <= Len(expected)
        /\ \A i \in 1..Len(requests) : requests[i] = expected[i]
        /\ pc \in {"check", "collect", "save", "done", "no_data"} => requests = expected

\* C7 witness: a run without a date that issued all four live requests and
\* finished.
C7_Witness == pc = "done" /\ ~date_input /\ requests = LivePath /\ saved = 1

\* C8: a request that comes back unsuccessful (or a station list that comes
\* back empty) is the last request of the run: the run ends in that stage's
\* error, the other path is not tried and no record is saved.
C8_FailFast ==
    \A i \in 1..Len(responses) :
        responses[i] # "ok" =>
            /\ i = Len(requests)
            /\ pc = "failed"
            /\ error.stage = requests[i]
            /\ saved = 0
            /\ weather_avg = Unset
            /\ \A j \in 1..Len(requests) :
                   requests[j] = (IF date_input THEN HistoricalPath ELSE LivePath)[j]

\* C8 witness: the station list came back empty and the run failed there.
C8_Witness ==
    /\ pc = "failed" /\ responses = <<"ok", "ok", "empty">>
    /\ error = [stage |-> "stations", exc |-> "ValueError"]
    /\ requests = <<"zippopotam", "points", "stations">>

\* The archive's five arrays do not all have the same length.
UnequalArrays == \E a, b \in ArrayNames : Len(data[a]) # Len(data[b])

\* C9: when the archive's hourly arrays differ in length,
\* get_historical_weather raises and returns nothing, and no record is saved.
C9_UnequalLengthsFail ==
    (hpc \notin {"idle", "frame"} /\ UnequalArrays) =>
        /\ hpc = "raised"
        /\ hresult = Unset /\ df = <<>> /\ df_night = <<>>
        /\ weather_avg = Unset
        /\ saved = 0
        /\ pc \in {"historical", "failed"}
        /\ pc = "failed" => error = [stage |-> "DataFrame", exc |-> "ValueError"]

\* C9 witness: a response whose time array is shorter than the value arrays
\* ended the run with the error.
C9_Witness ==
    /\ pc = "failed" /\ hpc = "raised"
    /\ Len(data.time) = 1 /\ Len(data.temperature_2m) = 2
    /\ error.exc = "ValueError"

\* C10 as stated: a run_cli whose weather path returned never takes the
\* "No nighttime weather data available" exit and calls save_record exactly
\* once.
C10_AlwaysSaves ==
    (mode = "cli" /\ weather_avg # Unset /\ pc \in {"done", "failed", "no_data"}) =>
        (pc # "no_data" /\ saved = 1)

\* C10 amended: a run_cli whose weather path returned never takes the early
\* exit and goes on to collect_user_data; it calls save_record exactly once
\* when collect_user_data returns, and not at all when an answer that is no
\* integer makes it raise ValueError.
C10_SavesWhenAnswersParse ==
    (mode = "cli" /\ weather_avg # Unset) =>
        /\ pc \in {"check", "collect", "save", "done", "failed"}
        /\ pc = "done" => (saved = 1 /\ user_input = "valid")
        /\ pc = "failed" =>
              /\ saved = 0
              /\ user_input = "not_a_number"
              /\ error = [stage |-> "collect_user_data", exc |-> "ValueError"]
        /\ pc \in {"check", "collect", "save"} => saved = 0

\* C10 witness: a run_cli on the live path whose four averages are all None
\* saved one record.
C10_Witness ==
    /\ mode = "cli" /\ pc = "done" /\ saved = 1
    /\ weather_avg = [avg_temp_C |-> None, avg_humidity_percent |-> None,
                       avg_pressure_Pa |-> None, avg_wind_mps |-> None]

====
